---------------------------- MODULE Spec2Model ----------------------------
(***************************************************************************)
(* Model of the seller-apis repository: the Ozon synchroniser (seller.py)  *)
(* and the Yandex Market synchroniser (market.py).                         *)
(*                                                                         *)
(* Python strings are modelled as sequences of one-character strings, so   *)
(* that str(), int(), str.split() and re.sub() are computed and not        *)
(* assumed.  The Cyrillic letters of the feed ("руб.") are written with    *)
(* the Latin letters "r", "u", "b": every one of them is a character that  *)
(* is neither an ASCII digit nor the decimal point.                        *)
(***************************************************************************)
EXTENDS Integers, Sequences, FiniteSets, TLC

VARIABLES
    pc,             \* position of the running program / harness
    watch_remnants, \* the canonical feed: list of rows of ostatki.xls
    offer_ids,      \* the caller's offer-id list object (mutable, passed by reference)
    enumerated,     \* value of the list at the moment get_offer_ids returned it
    product_list,   \* get_offer_ids: accumulated listing entries
    cursor,         \* get_offer_ids: last_id (seller) / page (market)
    listing,        \* listing requests and their responses, in order
    stocks,         \* result of create_stocks
    prices,         \* result of create_prices
    queue,          \* chunks the running for-loop has still to send
    wire,           \* update requests issued, with their outcome, in order
    channel,        \* market.main: campaign being synchronised
    error,          \* exception raised / category printed by main
    calls,          \* harness: the calls made so far, with their results
    printed,        \* what main has printed
    arg,            \* unit harness: argument of the pure function under test
    ret,            \* unit harness: its result
    catalog         \* the offers the marketplace holds, where a run fixes them

vars == << pc, watch_remnants, offer_ids, enumerated, product_list, cursor,
           listing, stocks, prices, queue, wire, channel, error, calls,
           printed, arg, ret,
          catalog >>

-----------------------------------------------------------------------------
(* Bounds of the model                                                     *)

MaxRecords == 2     \* rows in the feed
MaxOffers  == 3     \* entries of an offer-id list handed to the harness
MaxCalls   == 2     \* calls the reconciliation harness makes
MaxLen     == 4     \* items of a list given to divide
MaxN       == 3     \* chunk sizes given to divide
MaxText    == 4     \* characters of a price / quantity text under test
MaxPages   == 3     \* listing requests of one enumeration

-----------------------------------------------------------------------------
(* Python primitives                                                       *)

Min(a, b) == IF a <= b THEN a ELSE b

DigitChars == <<"0", "1", "2", "3", "4", "5", "6", "7", "8", "9">>

IsAsciiDigit(c) == \E d \in 1..10 : DigitChars[d] = c

DigitValue(c) == (CHOOSE d \in 1..10 : DigitChars[d] = c) - 1

\* str(n) for a non-negative int
RECURSIVE Str(_)
Str(n) == IF n < 10 THEN << DigitChars[n + 1] >>
          ELSE Str(n \div 10) \o << DigitChars[(n % 10) + 1] >>

\* x in lst
In(x, lst) == \E i \in 1..Len(lst) : lst[i] = x

\* lst.remove(x), x in lst: drops the first occurrence only
Remove(lst, x) ==
    LET i == CHOOSE k \in 1..Len(lst) :
                 lst[k] = x /\ \A j \in 1..(k - 1) : lst[j] # x
    IN  SubSeq(lst, 1, i - 1) \o SubSeq(lst, i + 1, Len(lst))

\* lst[a:b] for 0 <= a <= b
Slice(lst, a, b) == SubSeq(lst, a + 1, Min(b, Len(lst)))

\* s.strip() for the blank " "
RECURSIVE Strip(_)
Strip(s) == IF s = <<>> THEN s
            ELSE IF Head(s) = " " THEN Strip(Tail(s))
            ELSE IF s[Len(s)] = " " THEN Strip(SubSeq(s, 1, Len(s) - 1))
            ELSE s

AllDigits(s) == Len(s) >= 1 /\ \A i \in 1..Len(s) : IsAsciiDigit(s[i])

RECURSIVE DigitsValue(_)
DigitsValue(s) == IF s = <<>> THEN 0
                  ELSE 10 * DigitsValue(SubSeq(s, 1, Len(s) - 1))
                       + DigitValue(s[Len(s)])

\* int(s) succeeds: blanks around, an optional sign, then decimal digits
IntOk(s) ==
    LET t == Strip(s)
    IN  /\ t # <<>>
        /\ IF Head(t) \in {"+", "-"} THEN AllDigits(Tail(t)) ELSE AllDigits(t)

\* int(s) where IntOk(s)
IntOf(s) ==
    LET t == Strip(s)
    IN  IF Head(t) = "-" THEN 0 - DigitsValue(Tail(t))
        ELSE IF Head(t) = "+" THEN DigitsValue(Tail(t))
        ELSE DigitsValue(t)

\* s.split(sep), sep one character
RECURSIVE Split(_, _)
Split(s, sep) ==
    IF \A i \in 1..Len(s) : s[i] # sep THEN << s >>
    ELSE LET i == CHOOSE k \in 1..Len(s) :
                      s[k] = sep /\ \A j \in 1..(k - 1) : s[j] # sep
         IN  << SubSeq(s, 1, i - 1) >> \o Split(SubSeq(s, i + 1, Len(s)), sep)

\* re.sub("[^0-9]", "", s)
ReSubNonDigits(s) == SelectSeq(s, IsAsciiDigit)

-----------------------------------------------------------------------------
(* seller.py: price_conversion, divide                                     *)

\* mutant: the fraction's digits are kept (no split at the decimal point)
price_conversion_keep_fraction(price) == ReSubNonDigits(price)

price_conversion(price) == ReSubNonDigits(Split(price, ".")[1])

\* the generator: for i in range(0, len(lst), n): yield lst[i: i + n]
RECURSIVE divide_from(_, _, _)
divide_from(lst, n, i) ==
    IF i >= Len(lst) THEN <<>>
    ELSE << Slice(lst, i, i + n) >> \o divide_from(lst, n, i + n)

\* mutant: a short final part is not yielded
divide_whole_parts_only(lst, n) ==
    SelectSeq(divide_from(lst, n, 0), LAMBDA part : Len(part) = n)

\* list(divide(lst, n))
divide(lst, n) == divide_from(lst, n, 0)

-----------------------------------------------------------------------------
(* A row of the feed: 'Код' (an int), 'Цена' and 'Количество' (texts)      *)

Row(kod, tsena, kolichestvo) ==
    [Kod |-> kod, Tsena |-> tsena, Kolichestvo |-> kolichestvo]

\* mutant: the quantity "1" is read as the literal 1
stock_of_literal_one(count) ==
    IF count = << ">", "1", "0" >> THEN 100 ELSE IntOf(count)

\* the quantity rule of create_stocks: the stock of a matched row
stock_of(count) ==
    IF count = << ">", "1", "0" >> THEN 100
    ELSE IF count = << "1" >> THEN 0
    ELSE IntOf(count)

\* int(watch.get("Количество")) raises ValueError
stock_raises(count) ==
    /\ count # << ">", "1", "0" >>
    /\ count # << "1" >>
    /\ ~IntOk(count)

-----------------------------------------------------------------------------
(* seller.py: create_stocks, create_prices                                 *)
(* A call yields [raised, stocks | prices, offer_ids]: the exception       *)
(* raised ("none": it returned), the list returned, and the caller's       *)
(* offer_ids list as the call leaves it.                                   *)

RECURSIVE seller_stocks_loop(_, _, _, _)
seller_stocks_loop(watches, i, ids, acc) ==
    IF i > Len(watches)
    THEN [raised |-> "none", stocks |-> acc, offer_ids |-> ids]
    ELSE LET watch == watches[i]
             key   == Str(watch.Kod)
         IN  IF ~In(key, ids)
             THEN seller_stocks_loop(watches, i + 1, ids, acc)
             ELSE IF stock_raises(watch.Kolichestvo)
             THEN [raised |-> "ValueError", stocks |-> <<>>, offer_ids |-> ids]
             ELSE seller_stocks_loop(
                     watches, i + 1, Remove(ids, key),
                     Append(acc, [offer_id |-> key,
                                  stock |-> stock_of(watch.Kolichestvo)]))

\* mutant: a row whose quantity text is not recognised is skipped
seller_create_stocks_skip_malformed(watches, ids) ==
    LET keep(w) == ~stock_raises(w.Kolichestvo)
        r == seller_stocks_loop(SelectSeq(watches, keep), 1, ids, <<>>)
    IN  [r EXCEPT !.stocks =
            r.stocks \o [k \in 1..Len(r.offer_ids) |->
                            [offer_id |-> r.offer_ids[k], stock |-> 0]]]

\* mutant: the zero-filled offers come before the matched ones
seller_create_stocks_zero_fill_first(watches, ids) ==
    LET r == seller_stocks_loop(watches, 1, ids, <<>>)
    IN  IF r.raised # "none" THEN r
        ELSE [r EXCEPT !.stocks =
                 [k \in 1..Len(r.offer_ids) |->
                     [offer_id |-> r.offer_ids[k], stock |-> 0]] \o r.stocks]

seller_create_stocks(watches, ids) ==
    LET r == seller_stocks_loop(watches, 1, ids, <<>>)
    IN  IF r.raised # "none" THEN r
        ELSE [r EXCEPT !.stocks =
                 r.stocks \o [k \in 1..Len(r.offer_ids) |->
                                 [offer_id |-> r.offer_ids[k], stock |-> 0]]]

RECURSIVE seller_prices_loop(_, _, _, _)
seller_prices_loop(watches, i, ids, acc) ==
    IF i > Len(watches) THEN acc
    ELSE LET watch == watches[i]
             key   == Str(watch.Kod)
         IN  IF In(key, ids)
             THEN seller_prices_loop(
                     watches, i + 1, ids,
                     Append(acc, [auto_action_enabled |-> "UNKNOWN",
                                  currency_code |-> "RUB",
                                  offer_id |-> key,
                                  old_price |-> "0",
                                  price |-> price_conversion(watch.Tsena)]))
             ELSE seller_prices_loop(watches, i + 1, ids, acc)

\* mutant: offers without a row get a zero price
seller_create_prices_zero_fill(watches, ids) ==
    LET matched == seller_prices_loop(watches, 1, ids, <<>>)
        missing == SelectSeq(ids, LAMBDA x :
                       \A j \in 1..Len(matched) : matched[j].offer_id # x)
    IN  [raised |-> "none",
         prices |-> matched \o [k \in 1..Len(missing) |->
                        [auto_action_enabled |-> "UNKNOWN",
                         currency_code |-> "RUB",
                         offer_id |-> missing[k],
                         old_price |-> "0",
                         price |-> << "0" >>]],
         offer_ids |-> ids]

seller_create_prices(watches, ids) ==
    [raised |-> "none",
     prices |-> seller_prices_loop(watches, 1, ids, <<>>),
     offer_ids |-> ids]

-----------------------------------------------------------------------------
(* market.py: create_stocks, create_prices                                 *)

market_stock(sku, warehouse_id, count, date) ==
    [sku |-> sku, warehouseId |-> warehouse_id,
     items |-> << [count |-> count, type |-> "FIT", updatedAt |-> date] >>]

RECURSIVE market_stocks_loop(_, _, _, _, _, _)
market_stocks_loop(watches, i, ids, acc, warehouse_id, date) ==
    IF i > Len(watches)
    THEN [raised |-> "none", stocks |-> acc, offer_ids |-> ids]
    ELSE LET watch == watches[i]
             key   == Str(watch.Kod)
         IN  IF ~In(key, ids)
             THEN market_stocks_loop(watches, i + 1, ids, acc, warehouse_id, date)
             ELSE IF stock_raises(watch.Kolichestvo)
             THEN [raised |-> "ValueError", stocks |-> <<>>, offer_ids |-> ids]
             ELSE market_stocks_loop(
                     watches, i + 1, Remove(ids, key),
                     Append(acc, market_stock(key, warehouse_id,
                                              stock_of(watch.Kolichestvo), date)),
                     warehouse_id, date)

\* date: the instant utcnow() returns at the start of the call
market_create_stocks(watches, ids, warehouse_id, date) ==
    LET r == market_stocks_loop(watches, 1, ids, <<>>, warehouse_id, date)
    IN  IF r.raised # "none" THEN r
        ELSE [r EXCEPT !.stocks =
                 r.stocks \o [k \in 1..Len(r.offer_ids) |->
                                 market_stock(r.offer_ids[k], warehouse_id, 0, date)]]

RECURSIVE market_prices_loop(_, _, _, _)
market_prices_loop(watches, i, ids, acc) ==
    IF i > Len(watches) THEN [raised |-> "none", prices |-> acc]
    ELSE LET watch == watches[i]
             key   == Str(watch.Kod)
             text  == price_conversion(watch.Tsena)
         IN  IF ~In(key, ids)
             THEN market_prices_loop(watches, i + 1, ids, acc)
             ELSE IF ~IntOk(text)
             THEN [raised |-> "ValueError", prices |-> <<>>]
             ELSE market_prices_loop(
                     watches, i + 1, ids,
                     Append(acc, [id |-> key,
                                  price |-> [value |-> IntOf(text),
                                             currencyId |-> "RUR"]]))

market_create_prices(watches, ids) ==
    LET r == market_prices_loop(watches, 1, ids, <<>>)
    IN  [raised |-> r.raised, prices |-> r.prices, offer_ids |-> ids]

-----------------------------------------------------------------------------
(* Inputs                                                                  *)

Seqs(S, n) == UNION { [1..k -> S] : k \in 0..n }

Range(f) == { f[k] : k \in DOMAIN f }

\* "22'990.00 руб." and "5.50 руб."
Price22990 == << "2", "2", "'", "9", "9", "0", ".", "0", "0", " ", "r", "u", "b", "." >>
Price5 == << "5", ".", "5", "0", " ", "r", "u", "b", "." >>

\* rows of the feed: two for 73397, two for 73398, one for a code no
\* marketplace lists
Rows ==
    { Row(73397, Price22990, << ">", "1", "0" >>),
      Row(73397, Price5, << "1" >>),
      Row(73398, << "5", "9", "9", "0" >>, << "7" >>),
      Row(73398, << ".", "5", "0" >>, << "n", "e", "t" >>),
      Row(73400, << "1", "'", "0", "0", "0" >>, << "0" >>) }

Feeds == Seqs(Rows, MaxRecords)

\* offer ids a marketplace lists
OfferIds == { Str(73397), Str(73398) }

OfferLists == Seqs(OfferIds, MaxOffers)

\* instants utcnow() may return
Instants == { "2025-02-06T08:53:21Z", "2025-02-06T08:53:22Z" }

Warehouse(ch) == IF ch = "DBS" THEN "WAREHOUSE_DBS_ID" ELSE "WAREHOUSE_FBS_ID"

-----------------------------------------------------------------------------
(* Harness: a caller that holds one feed and one offer-id list and calls   *)
(* create_stocks / create_prices on them, as test.py and main do           *)

NoEnumeration == product_list = <<>> /\ cursor = "" /\ listing = <<>>
NoDispatch    == queue = <<>> /\ wire = <<>> /\ printed = <<>>
NoUnit        == arg = "none" /\ ret = "none"

InitReconcile ==
    /\ catalog = <<>>
    /\ pc = "harness"
    /\ watch_remnants \in Feeds
    /\ offer_ids \in OfferLists
    /\ enumerated = offer_ids
    /\ channel \in { "OZON", "FBS" }
    /\ stocks = <<>> /\ prices = <<>> /\ calls = <<>> /\ error = "none"
    /\ NoEnumeration /\ NoDispatch /\ NoUnit

Call(fn, at, r, out) ==
    [fn |-> fn, watches |-> watch_remnants, ids |-> offer_ids, at |-> at,
     raised |-> r.raised, ret |-> out, ids_after |-> r.offer_ids]

SellerCallCreateStocks ==
    /\ pc = "harness" /\ channel = "OZON" /\ Len(calls) < MaxCalls
    /\ LET r == seller_create_stocks(watch_remnants, offer_ids)
       IN  /\ offer_ids' = r.offer_ids
           /\ stocks' = IF r.raised = "none" THEN r.stocks ELSE stocks
           /\ calls' = Append(calls, Call("create_stocks", "none", r, r.stocks))
    /\ UNCHANGED << pc, watch_remnants, enumerated, product_list, cursor,
                    listing, prices, queue, wire, channel, error, arg, ret,
                    printed,
                    catalog >>

SellerCallCreatePrices ==
    /\ pc = "harness" /\ channel = "OZON" /\ Len(calls) < MaxCalls
    /\ LET r == seller_create_prices(watch_remnants, offer_ids)
       IN  /\ offer_ids' = r.offer_ids
           /\ prices' = IF r.raised = "none" THEN r.prices ELSE prices
           /\ calls' = Append(calls, Call("create_prices", "none", r, r.prices))
    /\ UNCHANGED << pc, watch_remnants, enumerated, product_list, cursor,
                    listing, stocks, queue, wire, channel, error, arg, ret,
                    printed,
                    catalog >>

MarketCallCreateStocks ==
    /\ pc = "harness" /\ channel = "FBS" /\ Len(calls) < MaxCalls
    /\ \E date \in Instants :
          LET r == market_create_stocks(watch_remnants, offer_ids,
                                        Warehouse(channel), date)
          IN  /\ offer_ids' = r.offer_ids
              /\ stocks' = IF r.raised = "none" THEN r.stocks ELSE stocks
              /\ calls' = Append(calls, Call("create_stocks", date, r, r.stocks))
    /\ UNCHANGED << pc, watch_remnants, enumerated, product_list, cursor,
                    listing, prices, queue, wire, channel, error, arg, ret,
                    printed,
                    catalog >>

MarketCallCreatePrices ==
    /\ pc = "harness" /\ channel = "FBS" /\ Len(calls) < MaxCalls
    /\ LET r == market_create_prices(watch_remnants, offer_ids)
       IN  /\ offer_ids' = r.offer_ids
           /\ prices' = IF r.raised = "none" THEN r.prices ELSE prices
           /\ calls' = Append(calls, Call("create_prices", "none", r, r.prices))
    /\ UNCHANGED << pc, watch_remnants, enumerated, product_list, cursor,
                    listing, stocks, queue, wire, channel, error, arg, ret,
                    printed,
                    catalog >>

NextReconcile ==
    \/ SellerCallCreateStocks
    \/ SellerCallCreatePrices
    \/ MarketCallCreateStocks
    \/ MarketCallCreatePrices

SpecReconcile == InitReconcile /\ [][NextReconcile]_vars

\* the same harness on one listed row whose quantity is any short text
QuantityChars == { ">", "1", "0", "7", "-", " " }

InitQuantity ==
    /\ catalog = <<>>
    /\ pc = "harness"
    /\ \E count \in Seqs(QuantityChars, MaxText) :
          watch_remnants = << Row(73397, Price5, count) >>
    /\ offer_ids = << Str(73397) >>
    /\ enumerated = offer_ids
    /\ channel \in { "OZON", "FBS" }
    /\ stocks = <<>> /\ prices = <<>> /\ calls = <<>> /\ error = "none"
    /\ NoEnumeration /\ NoDispatch /\ NoUnit

SpecQuantity == InitQuantity /\ [][NextReconcile]_vars

-----------------------------------------------------------------------------
(* Unit harness: one call of price_conversion, one of list(divide(..))     *)

PriceChars == { "5", "0", "9", "'", ".", " ", "r" }

PriceTexts == Seqs(PriceChars, MaxText) \cup { Price22990, Price5 }

NoProgram ==
    /\ watch_remnants = <<>> /\ offer_ids = <<>> /\ enumerated = <<>>
    /\ stocks = <<>> /\ prices = <<>> /\ calls = <<>> /\ error = "none"
    /\ channel = "none"
    /\ NoEnumeration /\ NoDispatch

InitPrice ==
    /\ catalog = <<>>
    /\ pc = "unit"
    /\ arg \in PriceTexts
    /\ ret = "none"
    /\ NoProgram

CallPriceConversion ==
    /\ pc = "unit"
    /\ ret' = price_conversion(arg)
    /\ pc' = "returned"
    /\ UNCHANGED << watch_remnants, offer_ids, enumerated, product_list, cursor,
                    listing, stocks, prices, queue, wire, channel, error,
                    calls, arg, printed,
                    catalog >>

SpecPrice == InitPrice /\ [][CallPriceConversion]_vars

Items == { "a", "b" }

\* [1..10], the list of the documented example
OneToTen == [k \in 1..10 |-> k]

InitDivide ==
    /\ catalog = <<>>
    /\ pc = "unit"
    /\ \E lst \in Seqs(Items, MaxLen) \cup { OneToTen }, n \in 1..MaxN :
          arg = [lst |-> lst, n |-> n]
    /\ ret = "none"
    /\ NoProgram

CallDivide ==
    /\ pc = "unit"
    /\ ret' = divide(arg.lst, arg.n)
    /\ pc' = "returned"
    /\ UNCHANGED << watch_remnants, offer_ids, enumerated, product_list, cursor,
                    listing, stocks, prices, queue, wire, channel, error,
                    calls, arg, printed,
                    catalog >>

SpecDivide == InitDivide /\ [][CallDivide]_vars

-----------------------------------------------------------------------------
(* Network: every request either gets its response or raises               *)

\* what requests raises: a read timeout, a connection error, or
\* raise_for_status() on a 4xx / 5xx response
Failures == { "ReadTimeout", "ConnectionError", "HTTPError" }

\* mutant: a 4xx / 5xx response is taken for a success
raises_ignored(status) == FALSE

\* the call raises instead of returning
raises(status) == status \in Failures

\* the except clauses of main: what is printed for an exception
Category(exception) ==
    IF exception = "ReadTimeout" THEN "timeout"
    ELSE IF exception = "ConnectionError" THEN "connection"
    ELSE "ERROR_2"

SellerStocksChunk == 100
SellerPricesChunk == 900
MarketStocksChunk == 2000
MarketPricesChunk == 500

-----------------------------------------------------------------------------
(* get_offer_ids of both backends against a marketplace                    *)

SellerItem(id) == [offer_id |-> id]
MarketEntry(id) == [offer |-> [shopSku |-> id]]

\* pages a marketplace may answer with (as lists of offer ids)
Pages == { <<>>, << Str(73397) >>, << Str(73398) >>,
           << Str(73397), Str(73398) >> }

\* a catalog that needs three stock requests on Ozon
BulkPage == [k \in 1..(2 * SellerStocksChunk + 1) |-> Str(73396 + k)]

Totals == { 0, 1, 2, 3 }

\* nextPageToken: absent (None), empty, or a token
Tokens == { "<None>", "", "eyJuZXh0IjoyfQ" }

\* last_id of a product/list answer
LastId(page) == IF page = <<>> THEN "" ELSE "WzEsMl0="

\* mutant: the loop ends as soon as the total is reached or exceeded
seller_listing_complete_at_most(total, products) == total <= Len(products)

\* mutant: the loop ends after the first answer whatever its total
seller_listing_complete_after_first_page(total, products) == TRUE

\* seller.py: if total == len(product_list): break
seller_listing_complete(total, products) == total = Len(products)

\* market.py: if not page: break
market_listing_complete(page) == page \in { "<None>", "" }

InitEnumeration ==
    /\ catalog = <<>>
    /\ pc = "get_product_list"
    /\ channel \in { "OZON", "FBS" }
    /\ product_list = <<>> /\ cursor = "" /\ listing = <<>>
    /\ watch_remnants = <<>> /\ offer_ids = <<>>
    /\ enumerated = IF channel = "OZON" THEN <<>> ELSE [FBS |-> <<>>, DBS |-> <<>>]
    /\ stocks = <<>> /\ prices = <<>> /\ calls = <<>> /\ error = "none"
    /\ NoDispatch /\ NoUnit

\* get_product_list(last_id | page, ...) issues its request
RequestPage ==
    /\ pc = "get_product_list"
    /\ Cardinality({ k \in 1..Len(listing) : listing[k].campaign = channel }) < MaxPages
    /\ listing' = Append(listing, [campaign |-> channel, cursor |-> cursor,
                                   status |-> "pending"])
    /\ pc' = "awaiting_page"
    /\ UNCHANGED << watch_remnants, offer_ids, enumerated, product_list, cursor,
                    stocks, prices, queue, wire, channel, error, calls, arg, ret,
                    printed,
                    catalog >>

\* the listing request raises: get_offer_ids propagates the exception
PageFails ==
    /\ pc = "awaiting_page"
    /\ \E status \in Failures :
          /\ raises(status)
          /\ listing' = [listing EXCEPT ![Len(listing)].status = status]
          /\ error' = status
    /\ pc' = "raised"
    /\ UNCHANGED << watch_remnants, offer_ids, enumerated, product_list, cursor,
                    stocks, prices, queue, wire, channel, calls, arg, ret,
                    printed,
                    catalog >>

\* seller.py get_offer_ids: one answer of product/list and the loop test
SellerPageArrives(pages, totals) ==
    /\ pc = "awaiting_page" /\ channel = "OZON"
    /\ \E page \in pages, total \in totals :
          LET products == product_list \o [k \in 1..Len(page) |-> SellerItem(page[k])]
              ids      == [k \in 1..Len(products) |-> products[k].offer_id]
          IN  /\ listing' = [listing EXCEPT ![Len(listing)] =
                                [campaign |-> channel, cursor |-> cursor,
                                 status |-> "ok", page |-> page,
                                 total |-> total, next |-> LastId(page)]]
              /\ product_list' = products
              /\ cursor' = LastId(page)
              /\ IF seller_listing_complete(total, products)
                 THEN /\ offer_ids' = ids
                      /\ enumerated' = ids
                      /\ pc' = "got_offer_ids"
                 ELSE /\ pc' = "get_product_list"
                      /\ UNCHANGED << offer_ids, enumerated, printed >>
    /\ UNCHANGED << watch_remnants, stocks, prices, queue, wire, channel, error,
                    calls, arg, ret, printed,
                    catalog >>

\* market.py get_offer_ids: one answer of offer-mapping-entries and the loop test
MarketPageArrives(pages, tokens) ==
    /\ pc = "awaiting_page" /\ channel \in { "FBS", "DBS" }
    /\ \E page \in pages, token \in tokens :
          LET products == product_list \o [k \in 1..Len(page) |-> MarketEntry(page[k])]
              ids      == [k \in 1..Len(products) |-> products[k].offer.shopSku]
          IN  /\ listing' = [listing EXCEPT ![Len(listing)] =
                                [campaign |-> channel, cursor |-> cursor,
                                 status |-> "ok", page |-> page,
                                 total |-> 0, next |-> token]]
              /\ product_list' = products
              /\ cursor' = token
              /\ IF market_listing_complete(token)
                 THEN /\ offer_ids' = ids
                      /\ enumerated' = [enumerated EXCEPT ![channel] = ids]
                      /\ pc' = "got_offer_ids"
                 ELSE /\ pc' = "get_product_list"
                      /\ UNCHANGED << offer_ids, enumerated, printed >>
    /\ UNCHANGED << watch_remnants, stocks, prices, queue, wire, channel, error,
                    calls, arg, ret, printed,
                    catalog >>

NextEnumeration ==
    \/ RequestPage
    \/ PageFails
    \/ SellerPageArrives(Pages, Totals)
    \/ MarketPageArrives(Pages, Tokens)

SpecEnumeration == InitEnumeration /\ [][NextEnumeration]_vars

-----------------------------------------------------------------------------
(* Sending the chunks: for some in list(divide(..)): update_..(some, ..)   *)

Request(endpoint, body) ==
    [endpoint |-> endpoint, campaign |-> channel, body |-> body,
     status |-> "pending"]

\* update_stocks(some_stock, ...) issues its request
SendStocks ==
    /\ pc = "update_stocks" /\ queue # <<>>
    /\ wire' = Append(wire, Request("stocks", Head(queue)))
    /\ queue' = Tail(queue)
    /\ pc' = "awaiting_stocks"
    /\ UNCHANGED << watch_remnants, offer_ids, enumerated, product_list, cursor,
                    listing, stocks, prices, channel, error, calls, printed,
                    arg, ret,
                    catalog >>

\* its response arrives, or the call raises and leaves the loop
StocksAnswered ==
    /\ pc = "awaiting_stocks"
    /\ \E status \in Failures \cup { "ok" } :
          /\ wire' = [wire EXCEPT ![Len(wire)].status = status]
          /\ IF raises(status)
             THEN pc' = "raised" /\ error' = status
             ELSE pc' = "update_stocks" /\ error' = error
    /\ UNCHANGED << watch_remnants, offer_ids, enumerated, product_list, cursor,
                    listing, stocks, prices, queue, channel, calls, printed,
                    arg, ret,
                    catalog >>

\* update_price(some_price, ...) issues its request
SendPrices ==
    /\ pc = "update_price" /\ queue # <<>>
    /\ wire' = Append(wire, Request("prices", Head(queue)))
    /\ queue' = Tail(queue)
    /\ pc' = "awaiting_price"
    /\ UNCHANGED << watch_remnants, offer_ids, enumerated, product_list, cursor,
                    listing, stocks, prices, channel, error, calls, printed,
                    arg, ret,
                    catalog >>

PricesAnswered ==
    /\ pc = "awaiting_price"
    /\ \E status \in Failures \cup { "ok" } :
          /\ wire' = [wire EXCEPT ![Len(wire)].status = status]
          /\ IF raises(status)
             THEN pc' = "raised" /\ error' = status
             ELSE pc' = "update_price" /\ error' = error
    /\ UNCHANGED << watch_remnants, offer_ids, enumerated, product_list, cursor,
                    listing, stocks, prices, queue, channel, calls, printed,
                    arg, ret,
                    catalog >>

\* the except clauses of main: the exception is caught and its category printed
\* mutant: a failure ends only the campaign at hand, main goes on with DBS
CatchAndGoOn ==
    /\ pc = "raised"
    /\ printed' = Append(printed, Category(error))
    /\ IF channel = "FBS"
       THEN /\ channel' = "DBS"
            /\ product_list' = <<>>
            /\ cursor' = ""
            /\ pc' = "get_product_list"
       ELSE /\ pc' = "caught"
            /\ UNCHANGED << channel, product_list, cursor >>
    /\ UNCHANGED << watch_remnants, offer_ids, enumerated, listing, stocks,
                    prices, queue, wire, error, calls, arg, ret,
                    catalog >>

Catch ==
    /\ pc = "raised"
    /\ printed' = Append(printed, Category(error))
    /\ pc' = "caught"
    /\ UNCHANGED << watch_remnants, offer_ids, enumerated, product_list, cursor,
                    listing, stocks, prices, queue, wire, channel, error, calls,
                    arg, ret,
                    catalog >>

-----------------------------------------------------------------------------
(* seller.py: main                                                         *)

\* what the Ozon listing answers during a run of main
SellerMainPages == { <<>>, << Str(73397) >>, << Str(73397), Str(73398) >>, BulkPage }
SellerMainTotals == { 0, 2, Len(BulkPage) }

InitSeller ==
    /\ catalog = <<>>
    /\ pc = "get_product_list"
    /\ channel = "OZON"
    /\ product_list = <<>> /\ cursor = "" /\ listing = <<>>
    /\ watch_remnants = <<>> /\ offer_ids = <<>> /\ enumerated = <<>>
    /\ stocks = <<>> /\ prices = <<>> /\ calls = <<>> /\ error = "none"
    /\ NoDispatch /\ NoUnit

\* watch_remnants = download_stock()
SellerDownloadStock ==
    /\ pc = "got_offer_ids" /\ channel = "OZON"
    /\ \/ /\ watch_remnants' \in Feeds
          /\ pc' = "create_stocks"
          /\ error' = error
       \/ /\ \E status \in Failures : raises(status) /\ error' = status
          /\ pc' = "raised"
          /\ UNCHANGED watch_remnants
    /\ UNCHANGED << offer_ids, enumerated, product_list, cursor, listing, stocks,
                    prices, queue, wire, channel, calls, printed, arg, ret,
                    catalog >>

\* stocks = create_stocks(watch_remnants, offer_ids); list(divide(stocks, 100))
SellerCreateStocks ==
    /\ pc = "create_stocks" /\ channel = "OZON"
    /\ LET r == seller_create_stocks(watch_remnants, offer_ids)
       IN  /\ offer_ids' = r.offer_ids
           /\ IF r.raised # "none"
              THEN /\ error' = r.raised
                   /\ pc' = "raised"
                   /\ UNCHANGED << stocks, queue >>
              ELSE /\ stocks' = r.stocks
                   /\ queue' = divide(r.stocks, SellerStocksChunk)
                   /\ pc' = "update_stocks"
                   /\ error' = error
    /\ UNCHANGED << watch_remnants, enumerated, product_list, cursor, listing,
                    prices, wire, channel, calls, printed, arg, ret,
                    catalog >>

\* prices = create_prices(watch_remnants, offer_ids); list(divide(prices, 900))
SellerCreatePrices ==
    /\ pc = "update_stocks" /\ queue = <<>> /\ channel = "OZON"
    /\ LET r == seller_create_prices(watch_remnants, offer_ids)
       IN  /\ offer_ids' = r.offer_ids
           /\ prices' = r.prices
           /\ queue' = divide(r.prices, SellerPricesChunk)
    /\ pc' = "update_price"
    /\ UNCHANGED << watch_remnants, enumerated, product_list, cursor, listing,
                    stocks, wire, channel, error, calls, printed, arg, ret,
                    catalog >>

\* the last price chunk was answered: main returns
SellerReturns ==
    /\ pc = "update_price" /\ queue = <<>>
    /\ pc' = "done"
    /\ UNCHANGED << watch_remnants, offer_ids, enumerated, product_list, cursor,
                    listing, stocks, prices, queue, wire, channel, error, calls,
                    printed, arg, ret,
                    catalog >>

NextSeller ==
    \/ RequestPage
    \/ PageFails
    \/ SellerPageArrives(SellerMainPages, SellerMainTotals)
    \/ SellerDownloadStock
    \/ SellerCreateStocks
    \/ SendStocks
    \/ StocksAnswered
    \/ SellerCreatePrices
    \/ SendPrices
    \/ PricesAnswered
    \/ SellerReturns
    \/ Catch

SpecSeller == InitSeller /\ [][NextSeller]_vars

-----------------------------------------------------------------------------
(* market.py: main                                                         *)

\* what the Market listing answers during a run of main
MarketMainPages == { << Str(73397), Str(73398) >> }

InitMarket ==
    /\ catalog = <<>>
    /\ pc = "download_stock"
    /\ channel = "FBS"
    /\ product_list = <<>> /\ cursor = "" /\ listing = <<>>
    /\ watch_remnants = <<>> /\ offer_ids = <<>>
    /\ enumerated = [FBS |-> <<>>, DBS |-> <<>>]
    /\ stocks = <<>> /\ prices = <<>> /\ calls = <<>> /\ error = "none"
    /\ NoDispatch /\ NoUnit

\* watch_remnants = download_stock(), before the try block: an exception
\* leaves main uncaught
MarketDownloadStock ==
    /\ pc = "download_stock"
    /\ \/ /\ watch_remnants' \in Feeds
          /\ pc' = "get_product_list"
          /\ error' = error
       \/ /\ \E status \in Failures : raises(status) /\ error' = status
          /\ pc' = "crashed"
          /\ UNCHANGED watch_remnants
    /\ UNCHANGED << offer_ids, enumerated, product_list, cursor, listing, stocks,
                    prices, queue, wire, channel, calls, printed, arg, ret,
                    catalog >>

\* stocks = create_stocks(watch_remnants, offer_ids, warehouse_.._id);
\* list(divide(stocks, 2000))
MarketCreateStocks ==
    /\ pc = "got_offer_ids" /\ channel \in { "FBS", "DBS" }
    /\ \E date \in Instants :
          LET r == market_create_stocks(watch_remnants, offer_ids,
                                        Warehouse(channel), date)
          IN  /\ offer_ids' = r.offer_ids
              /\ IF r.raised # "none"
                 THEN /\ error' = r.raised
                      /\ pc' = "raised"
                      /\ UNCHANGED << stocks, queue >>
                 ELSE /\ stocks' = r.stocks
                      /\ queue' = divide(r.stocks, MarketStocksChunk)
                      /\ pc' = "update_stocks"
                      /\ error' = error
    /\ UNCHANGED << watch_remnants, enumerated, product_list, cursor, listing,
                    prices, wire, channel, calls, printed, arg, ret,
                    catalog >>

\* upload_prices(watch_remnants, campaign_.._id, market_token): upload_prices
\* is an async def and the call is not awaited, so it only builds a coroutine
\* object that is dropped; none of its body runs.  main goes on with the DBS
\* campaign (get_offer_ids starts from page = "", product_list = []) or returns.
MarketUploadPrices ==
    /\ pc = "update_stocks" /\ queue = <<>> /\ channel \in { "FBS", "DBS" }
    /\ IF channel = "FBS"
       THEN /\ channel' = "DBS"
            /\ product_list' = <<>>
            /\ cursor' = ""
            /\ pc' = "get_product_list"
       ELSE /\ pc' = "done"
            /\ UNCHANGED << channel, product_list, cursor >>
    /\ UNCHANGED << watch_remnants, offer_ids, enumerated, listing, stocks,
                    prices, queue, wire, error, calls, printed, arg, ret,
                    catalog >>

NextMarket ==
    \/ MarketDownloadStock
    \/ RequestPage
    \/ PageFails
    \/ MarketPageArrives(MarketMainPages, Tokens)
    \/ MarketCreateStocks
    \/ SendStocks
    \/ StocksAnswered
    \/ MarketUploadPrices
    \/ Catch

SpecMarket == InitMarket /\ [][NextMarket]_vars

-----------------------------------------------------------------------------
(* Properties of reconciliation                                            *)

StockId(entry) == IF "sku" \in DOMAIN entry THEN entry.sku ELSE entry.offer_id

StockCount(entry) ==
    IF "sku" \in DOMAIN entry THEN entry.items[1].count ELSE entry.stock

PriceId(entry) == IF "id" \in DOMAIN entry THEN entry.id ELSE entry.offer_id

Occurrences(lst, x) == Cardinality({ k \in 1..Len(lst) : lst[k] = x })

StockCalls == { k \in 1..Len(calls) : calls[k].fn = "create_stocks" }
PriceCalls == { k \in 1..Len(calls) : calls[k].fn = "create_prices" }

\* C1: the stock list create_stocks returns holds every offer id of the
\* collection it was given exactly once, and no other id.
C1_StockIdsExactlyTheEnumerated ==
    \A k \in StockCalls :
        calls[k].raised = "none" =>
            LET out == [j \in 1..Len(calls[k].ret) |-> StockId(calls[k].ret[j])]
            IN  /\ \A x \in Range(calls[k].ids) : Occurrences(out, x) = 1
                /\ \A j \in 1..Len(out) : In(out[j], calls[k].ids)

\* the rows of a feed whose stringified code is one of ids, in feed order
MatchedRows(watches, ids) ==
    LET listed(w) == \E j \in 1..Len(ids) : ids[j] = Str(w.Kod)
    IN  SelectSeq(watches, listed)

HasDigitBeforePoint(text) ==
    \E i \in 1..Len(text) :
        /\ text[i] \in { "0", "1", "2", "3", "4", "5", "6", "7", "8", "9" }
        /\ \A j \in 1..i : text[j] # "."

\* C2: create_prices returns, in feed order, one price update per row whose
\* stringified code is in the offer ids, with the normalised price and the
\* channel's currency (RUB as text on Ozon, RUR as a number on Market, where
\* a matched row without a digit before the point raises instead), and no
\* update for an offer id without a row.
C2_PricesAreTheMatchedRows ==
    \A k \in PriceCalls :
        LET m   == MatchedRows(calls[k].watches, calls[k].ids)
            out == calls[k].ret
        IN  IF channel = "OZON"
            THEN /\ calls[k].raised = "none"
                 /\ Len(out) = Len(m)
                 /\ \A j \in 1..Len(m) :
                       /\ out[j].offer_id = Str(m[j].Kod)
                       /\ out[j].price = price_conversion(m[j].Tsena)
                       /\ out[j].currency_code = "RUB"
            ELSE IF \E j \in 1..Len(m) : ~HasDigitBeforePoint(m[j].Tsena)
            THEN calls[k].raised = "ValueError"
            ELSE /\ calls[k].raised = "none"
                 /\ Len(out) = Len(m)
                 /\ \A j \in 1..Len(m) :
                       /\ out[j].id = Str(m[j].Kod)
                       /\ out[j].price.value = IntOf(price_conversion(m[j].Tsena))
                       /\ out[j].price.currencyId = "RUR"

\* a price call on rows <<73397>> with 73397 and 73398 listed: one update
C2_Witness ==
    \E k \in PriceCalls :
        /\ calls[k].ids = << Str(73397), Str(73398) >>
        /\ Len(calls[k].watches) = 1
        /\ calls[k].watches[1].Kod = 73397
        /\ calls[k].raised = "none"
        /\ Len(calls[k].ret) = 1
        /\ PriceId(calls[k].ret[1]) = Str(73397)

CanonicalLiteral(text) ==
    /\ Len(text) >= 1
    /\ \A i \in 1..Len(text) :
          text[i] \in { "0", "1", "2", "3", "4", "5", "6", "7", "8", "9" }
    /\ (Len(text) > 1 => text[1] # "0")

\* C8: a matched row's quantity ">10" gives stock 100, "1" gives 0, and any
\* other decimal literal gives its value (the literal read back from the
\* stock is the text), sign included; none of them raises.
C8_QuantityRule ==
    \A k \in StockCalls :
        LET count == calls[k].watches[1].Kolichestvo
            out   == calls[k].ret
        IN  In(Str(calls[k].watches[1].Kod), calls[k].ids) =>
              /\ count = << ">", "1", "0" >> =>
                    calls[k].raised = "none" /\ StockCount(out[1]) = 100
              /\ count = << "1" >> =>
                    calls[k].raised = "none" /\ StockCount(out[1]) = 0
              /\ (CanonicalLiteral(count) /\ count # << "1" >>) =>
                    /\ calls[k].raised = "none"
                    /\ StockCount(out[1]) >= 0
                    /\ Str(StockCount(out[1])) = count
              /\ (Len(count) >= 2 /\ count[1] = "-" /\ CanonicalLiteral(Tail(count))
                  /\ Tail(count) # << "0" >>) =>
                    /\ calls[k].raised = "none"
                    /\ StockCount(out[1]) < 0
                    /\ Str(0 - StockCount(out[1])) = Tail(count)

\* a matched row with quantity "1" was reconciled to stock 0
C8_Witness ==
    \E k \in StockCalls :
        /\ calls[k].watches[1].Kolichestvo = << "1" >>
        /\ calls[k].ids = << Str(73397) >>
        /\ calls[k].raised = "none"
        /\ StockCount(calls[k].ret[1]) = 0

\* C10: two successive create_stocks calls of one caller, on the same feed
\* and offer-id collection and at the same instant, return identical lists,
\* and a call leaves the caller's collection as it was.
C10_ReconcileTwiceSameResult ==
    /\ \A k \in StockCalls : calls[k].ids_after = calls[k].ids
    /\ \A k \in StockCalls :
          (k + 1 \in StockCalls /\ calls[k + 1].at = calls[k].at) =>
              /\ calls[k + 1].raised = calls[k].raised
              /\ calls[k + 1].ret = calls[k].ret

-----------------------------------------------------------------------------
(* Properties of price_conversion and divide                               *)

\* positions of the digits that precede the first decimal point
DigitPlaces(text) ==
    { i \in 1..Len(text) :
        /\ text[i] \in { "0", "1", "2", "3", "4", "5", "6", "7", "8", "9" }
        /\ \A j \in 1..i : text[j] # "." }

\* C9: price_conversion returns exactly the digits standing before the first
\* decimal point, in their order (nothing rounded, nothing else kept); a text
\* of digits only is returned unchanged.
C9_PriceIsDigitsBeforePoint ==
    pc = "returned" =>
        LET places == DigitPlaces(arg)
            nth(k) == CHOOSE i \in places :
                          Cardinality({ j \in places : j <= i }) = k
        IN  /\ Len(ret) = Cardinality(places)
            /\ \A k \in 1..Len(ret) : ret[k] = arg[nth(k)]
            /\ (places = 1..Len(arg) => ret = arg)
            /\ (arg = Price22990 => ret = << "2", "2", "9", "9", "0" >>)
            /\ (arg = Price5 => ret = << "5" >>)

\* "5.50 руб." was converted to "5"
C9_Witness == pc = "returned" /\ arg = Price5 /\ ret = << "5" >>

RECURSIVE Flatten(_)
Flatten(ss) == IF ss = <<>> THEN <<>> ELSE Head(ss) \o Flatten(Tail(ss))

\* ceil(len / n)
Ceil(len, n) == CHOOSE c \in 0..len : c * n >= len /\ (c = 0 \/ (c - 1) * n < len)

\* C5: list(divide(lst, n)), n >= 1, has ceil(len/n) sublists whose
\* concatenation is lst; each has n items except the last, which has 1..n;
\* the empty list gives none, a multiple of n gives no short sublist.
C5_DivideChunks ==
    pc = "returned" =>
        LET lst == arg.lst
            n   == arg.n
        IN  /\ Len(ret) = Ceil(Len(lst), n)
            /\ Flatten(ret) = lst
            /\ \A k \in 1..(Len(ret) - 1) : Len(ret[k]) = n
            /\ Len(ret) > 0 => Len(ret[Len(ret)]) \in 1..n
            /\ lst = <<>> => ret = <<>>
            /\ Len(lst) % n = 0 => \A k \in 1..Len(ret) : Len(ret[k]) = n

\* [1..10] by 3 gave [1,2,3], [4,5,6], [7,8,9], [10]
C5_Witness ==
    /\ pc = "returned" /\ arg.lst = OneToTen /\ arg.n = 3
    /\ ret = << <<1, 2, 3>>, <<4, 5, 6>>, <<7, 8, 9>>, <<10>> >>

-----------------------------------------------------------------------------
(* Properties of get_offer_ids                                             *)

Answered(k) == listing[k].status = "ok"

\* ids of the pages answered up to and including request k, in order
RECURSIVE Received(_)
Received(k) == IF k = 0 THEN <<>>
               ELSE IF Answered(k) THEN Received(k - 1) \o listing[k].page
               ELSE Received(k - 1)

\* the answer to request k tells that the listing is complete
SignalsCompletion(k) ==
    /\ Answered(k)
    /\ IF channel = "OZON"
       THEN listing[k].total = Len(Received(k))
       ELSE listing[k].next = "" \/ listing[k].next = "<None>"

\* C7: get_offer_ids asks for a further page only while no answer has
\* signalled completion (empty or absent nextPageToken on Market, total equal
\* to the number of entries accumulated on Ozon), returns only on an answer
\* that signals it, and returns the entries of every page it received.
C7_EnumerationStopsOnSignal ==
    /\ \A k \in 1..(Len(listing) - 1) : Answered(k) /\ ~SignalsCompletion(k)
    /\ pc = "get_product_list" /\ listing # <<>> =>
          Answered(Len(listing)) /\ ~SignalsCompletion(Len(listing))
    /\ pc = "got_offer_ids" =>
          /\ listing # <<>>
          /\ SignalsCompletion(Len(listing))
          /\ offer_ids = Received(Len(listing))
    /\ (listing # <<>> /\ SignalsCompletion(Len(listing))) => pc = "got_offer_ids"

\* an enumeration that returned after its second page
C7_Witness ==
    /\ pc = "got_offer_ids"
    /\ Len(listing) = 2
    /\ ~SignalsCompletion(1)
    /\ SignalsCompletion(2)
    /\ Len(offer_ids) = 2

-----------------------------------------------------------------------------
(* Properties of the runs of main                                          *)

\* the requests sent to an endpoint for a campaign, in order
Sent(endpoint, campaign) ==
    SelectSeq(wire, LAMBDA q : q.endpoint = endpoint /\ q.campaign = campaign)

\* the updates an endpoint accepted for a campaign, in order
Delivered(endpoint, campaign) ==
    LET ok == SelectSeq(Sent(endpoint, campaign), LAMBDA q : q.status = "ok")
    IN  Flatten([k \in 1..Len(ok) |-> ok[k].body])

\* C3: when seller.main ends without a failure, the price updates delivered
\* are create_prices of the feed against the full enumerated offer ids.
C3_SellerDeliversPricesOfEnumeration ==
    pc = "done" =>
        Delivered("prices", "OZON") =
            seller_create_prices(watch_remnants, enumerated).prices

\* the k-th part of lst cut by size
Part(lst, size, k) ==
    SubSeq(lst, (k - 1) * size + 1, Min(k * size, Len(lst)))

\* C4: when market.main ends without a failure, every price chunk of each
\* campaign (the campaign's price list cut by 500) was sent to the price
\* endpoint and accepted, after the campaign's last stock chunk.
C4_MarketSendsPricesAfterStocks ==
    pc = "done" =>
        \A campaign \in { "FBS", "DBS" } :
            LET r == market_create_prices(watch_remnants, enumerated[campaign])
                n == (Len(r.prices) + MarketPricesChunk - 1) \div MarketPricesChunk
            IN  r.raised = "none" =>
                  \A k \in 1..n :
                      \E i \in 1..Len(wire) :
                          /\ wire[i].endpoint = "prices"
                          /\ wire[i].campaign = campaign
                          /\ wire[i].status = "ok"
                          /\ wire[i].body = Part(r.prices, MarketPricesChunk, k)
                          /\ \A j \in 1..Len(wire) :
                                (wire[j].endpoint = "stocks"
                                 /\ wire[j].campaign = campaign) => j < i

C6_WireInOrder ==
    LET stock_requests == Sent("stocks", "OZON")
        price_requests == Sent("prices", "OZON")
    IN  /\ \A k \in 1..Len(stock_requests) :
              stock_requests[k].body = Part(stocks, SellerStocksChunk, k)
        /\ \A k \in 1..Len(price_requests) :
              price_requests[k].body = Part(prices, SellerPricesChunk, k)
        /\ \A k \in 1..(Len(wire) - 1) : wire[k].status = "ok"
        /\ (wire # <<>> /\ wire[Len(wire)].status = "pending") =>
              pc \in { "awaiting_stocks", "awaiting_price" }
        /\ (wire # <<>> /\ wire[Len(wire)].status \in Failures) =>
              pc \in { "raised", "caught" }

C6_NothingAfterFailure ==
    /\ \A k \in 1..Len(wire) :
          wire[k].status = "ok" => (k <= Len(wire') /\ wire'[k] = wire[k])
    /\ (wire # <<>> /\ wire[Len(wire)].status \in Failures) => wire' = wire

\* C6: the chunks are sent in list order, each only after every earlier one
\* was answered with success; once a call has failed no further request is
\* issued, and what was delivered before stays as it is.
C6_DispatchSequentialStopsOnFailure ==
    [](C6_WireInOrder) /\ [][C6_NothingAfterFailure]_vars

\* the second of three stock chunks failed: main stopped with the third unsent
C6_Witness ==
    /\ pc = "caught"
    /\ Len(stocks) = 2 * SellerStocksChunk + 1
    /\ Len(wire) = 2
    /\ wire[1].status = "ok"
    /\ wire[2].endpoint = "stocks" /\ wire[2].status \in Failures
    /\ Len(queue) = 1

-----------------------------------------------------------------------------
(* Further properties of get_offer_ids and create_stocks                   *)

\* C11: the list get_offer_ids returns holds no offer id twice, whatever the
\* pages the marketplace answered with.
C11_EnumerationHasNoDuplicates ==
    pc = "got_offer_ids" =>
        \A x \in Range(offer_ids) : Occurrences(offer_ids, x) = 1

\* C12: every stock update create_stocks returns carries a quantity >= 0,
\* whenever the quantity texts were accepted (the call returned).
C12_StockQuantitiesNonNegative ==
    \A k \in StockCalls :
        calls[k].raised = "none" =>
            \A j \in 1..Len(calls[k].ret) : StockCount(calls[k].ret[j]) >= 0

\* a quantity text of none of the recognised shapes: ">10", "1", or an
\* optionally signed run of decimal digits between blanks
Unrecognised(count) ==
    LET t    == Strip(count)
        body == IF t # <<>> /\ t[1] \in { "+", "-" } THEN Tail(t) ELSE t
    IN  /\ count # << ">", "1", "0" >>
        /\ count # << "1" >>
        /\ ~(body # <<>> /\ \A i \in 1..Len(body) : IsAsciiDigit(body[i]))

\* row i of the feed is reached with its code still among the offer ids:
\* the code is listed more often than it occurred in the rows before
StillListed(watches, ids, i) ==
    Occurrences(ids, Str(watches[i].Kod)) >
        Cardinality({ j \in 1..(i - 1) : Str(watches[j].Kod) = Str(watches[i].Kod) })

\* seller.main stopped in create_stocks: no stock list, nothing dispatched
StoppedInCreateStocks ==
    /\ pc \in { "raised", "caught" }
    /\ error = "ValueError"
    /\ stocks = <<>> /\ queue = <<>> /\ wire = <<>>

\* C13 as stated: whenever any row of the feed has an unrecognised quantity
\* text, create_stocks fails (ValueError), returns no stock list and no stock
\* chunk is dispatched.
C13_AnyMalformedRowAborts ==
    (\E i \in 1..Len(watch_remnants) : Unrecognised(watch_remnants[i].Kolichestvo))
        => (pc = "create_stocks" \/ StoppedInCreateStocks)

C13_OffendingRow ==
    \E i \in 1..Len(watch_remnants) :
        /\ Unrecognised(watch_remnants[i].Kolichestvo)
        /\ StillListed(watch_remnants, enumerated, i)

\* C13 amended: create_stocks fails (ValueError, no stock list, no stock chunk
\* dispatched) exactly when a row with an unrecognised quantity text is
\* reached with its code still among the offer ids; such a row whose code is
\* not listed, or no longer listed, is skipped and the run goes on.
C13_ListedMalformedRowAborts ==
    /\ C13_OffendingRow => (pc = "create_stocks" \/ StoppedInCreateStocks)
    /\ ~C13_OffendingRow => error # "ValueError"

C13_Witness ==
    /\ pc = "caught" /\ printed = << "ERROR_2" >>
    /\ StoppedInCreateStocks
    /\ Len(watch_remnants) = 2
    /\ ~Unrecognised(watch_remnants[1].Kolichestvo)
    /\ StillListed(watch_remnants, enumerated, 1)
    /\ C13_OffendingRow

\* the codes of the rows that find their code still listed, in feed order
MatchedKeys(watches, ids) ==
    LET I == { i \in 1..Len(watches) : StillListed(watches, ids, i) }
        nth(j) == CHOOSE i \in I : Cardinality({ x \in I : x < i }) = j - 1
    IN  [j \in 1..Cardinality(I) |-> Str(watches[nth(j)].Kod)]

\* a is b with some entries left out, the others in b's order
RECURSIVE IsSubsequence(_, _)
IsSubsequence(a, b) ==
    IF a = <<>> THEN TRUE
    ELSE IF b = <<>> THEN FALSE
    ELSE IF Head(a) = Head(b) THEN IsSubsequence(Tail(a), Tail(b))
    ELSE IsSubsequence(a, Tail(b))

\* C14: the stock list create_stocks returns holds first the updates of the
\* matched offers in feed order, then the zero-quantity updates of the
\* unmatched offers in the order of the enumeration.
C14_MatchedThenZeroFilled ==
    \A k \in StockCalls :
        calls[k].raised = "none" =>
            LET out  == calls[k].ret
                keys == MatchedKeys(calls[k].watches, calls[k].ids)
                m    == Len(keys)
                rest == [j \in 1..(Len(out) - m) |-> StockId(out[m + j])]
            IN  /\ Len(out) = Len(calls[k].ids)
                /\ \A j \in 1..m : StockId(out[j]) = keys[j]
                /\ \A j \in (m + 1)..Len(out) : StockCount(out[j]) = 0
                /\ IsSubsequence(rest, calls[k].ids)
                /\ \A x \in Range(calls[k].ids) :
                       Occurrences(rest, x) + Occurrences(keys, x)
                           = Occurrences(calls[k].ids, x)

\* an offer enumerated last is matched and comes first, before a zero fill
C14_Witness ==
    \E k \in StockCalls :
        /\ calls[k].raised = "none"
        /\ calls[k].ids = << Str(73397), Str(73398) >>
        /\ Len(calls[k].ret) = 2
        /\ StockId(calls[k].ret[1]) = Str(73398)
        /\ StockCount(calls[k].ret[1]) = 7
        /\ StockId(calls[k].ret[2]) = Str(73397)
        /\ StockCount(calls[k].ret[2]) = 0

-----------------------------------------------------------------------------
(* market.py: a failure in the FBS cycle                                   *)

\* a step of the FBS cycle has failed: a listing request, create_stocks or
\* a stock chunk
FbsStepFailed ==
    \/ \E i \in 1..Len(listing) :
          listing[i].campaign = "FBS" /\ listing[i].status \in Failures
    \/ \E i \in 1..Len(wire) :
          wire[i].campaign = "FBS" /\ wire[i].status \in Failures
    \/ channel = "FBS" /\ error = "ValueError"

NoDbsRequest ==
    /\ \A i \in 1..Len(listing) : listing[i].campaign # "DBS"
    /\ \A i \in 1..Len(wire) : wire[i].campaign # "DBS"

C15_Aborted ==
    /\ FbsStepFailed =>
          /\ channel = "FBS" /\ pc \in { "raised", "caught" }
          /\ NoDbsRequest
          /\ pc = "caught" => printed = << Category(error) >>
    /\ pc = "crashed" => (listing = <<>> /\ wire = <<>>)

C15_CaughtThenReturns ==
    /\ (FbsStepFailed /\ pc = "raised") =>
          /\ pc' = "caught"
          /\ printed' = << Category(error) >>
          /\ UNCHANGED << listing, wire, channel, error >>
    /\ pc = "caught" => UNCHANGED vars

\* C15: once a step of the FBS cycle of market.main has failed (a listing
\* request, create_stocks or a stock chunk), no DBS listing, stock or price
\* request is ever issued, and the exception is caught in main, which prints
\* its category and returns; it does not leave main uncaught.
C15_FbsFailureAbortsRun ==
    [](C15_Aborted) /\ [][C15_CaughtThenReturns]_vars

\* an FBS stock chunk timed out: main printed the category and stopped
C15_Witness ==
    /\ pc = "caught" /\ channel = "FBS"
    /\ wire # <<>>
    /\ wire[Len(wire)].campaign = "FBS"
    /\ wire[Len(wire)].status = "ReadTimeout"
    /\ printed = << "timeout" >>
    /\ NoDbsRequest

-----------------------------------------------------------------------------
(* seller.py: get_offer_ids against a marketplace that holds a fixed       *)
(* catalog and serves it page by page, each answer carrying total = N      *)

\* "limit": 1000 of the product/list request
SellerPageLimit == 1000

CatalogIds == { Str(73396 + k) : k \in 1..MaxPages }

\* a catalog too large for one page
BigCatalog == [k \in 1..(SellerPageLimit + 1) |-> Str(73396 + k)]

\* the catalogs: no offer twice; small enough to be served within MaxPages
\* requests whatever the page sizes, or BigCatalog served in full pages
Catalogs ==
    { c \in Seqs(CatalogIds, MaxPages) :
          \A i, j \in 1..Len(c) : c[i] = c[j] => i = j }
    \cup { BigCatalog }

\* number of entries the marketplace has served in its answers so far
RECURSIVE Served(_)
Served(log) ==
    IF log = <<>> THEN 0
    ELSE Served(SubSeq(log, 1, Len(log) - 1))
         + (IF log[Len(log)].status = "ok" THEN Len(log[Len(log)].page) ELSE 0)

\* the pages the marketplace may answer the pending request with: the
\* entries that follow the ones served, at least one and at most the limit
\* while any are left, none afterwards
CatalogPages ==
    LET served == Served(listing)
        left   == Len(catalog) - served
        most   == Min(left, SellerPageLimit)
        sizes  == IF left = 0 THEN { 0 }
                  ELSE IF Len(catalog) <= MaxPages THEN 1..most
                  ELSE { most }
    IN  { SubSeq(catalog, served + 1, served + n) : n \in sizes }

InitCatalog ==
    /\ catalog \in Catalogs
    /\ pc = "get_product_list"
    /\ channel = "OZON"
    /\ product_list = <<>> /\ cursor = "" /\ listing = <<>>
    /\ watch_remnants = <<>> /\ offer_ids = <<>> /\ enumerated = <<>>
    /\ stocks = <<>> /\ prices = <<>> /\ calls = <<>> /\ error = "none"
    /\ NoDispatch /\ NoUnit

NextCatalog ==
    \/ RequestPage
    \/ SellerPageArrives(CatalogPages, { Len(catalog) })

\* the program keeps running and the marketplace answers every request
SpecCatalog == InitCatalog /\ [][NextCatalog]_vars /\ WF_vars(NextCatalog)

C16_ReturnsTheCatalog ==
    pc = "got_offer_ids" =>
        /\ Len(offer_ids) = Len(catalog)
        /\ offer_ids = catalog
        /\ catalog = <<>> => Len(listing) = 1

\* C16: against a marketplace that serves a fixed catalog of N offers in
\* non-empty pages of at most 1000 entries without repeating an entry, with
\* total = N in every answer, seller.get_offer_ids eventually returns, with
\* exactly the N ids of the catalog; when N = 0 after a single request.
C16_EnumerationTerminates ==
    <>(pc = "got_offer_ids") /\ [](C16_ReturnsTheCatalog)

\* three offers served in two pages
C16_Witness ==
    /\ pc = "got_offer_ids"
    /\ Len(catalog) = 3
    /\ Len(listing) = 2
    /\ offer_ids = catalog

\* the large catalog took a full page and a second one
C16_WitnessBig ==
    /\ pc = "got_offer_ids"
    /\ catalog = BigCatalog
    /\ Len(listing) = 2
    /\ Len(listing[1].page) = SellerPageLimit

=============================================================================
